---- MODULE Spec2Model ----
(***************************************************************************)
(* Forensic Governance Engine of agristack_app_v9.py: the identifier       *)
(* generator, the four risk detectors, the identity similarity and the     *)
(* master protocol execute_verification_protocol that scores every row of  *)
(* a DataFrame and routes it to a governance channel.                      *)
(*                                                                         *)
(* Text is a sequence of one-character strings, so that lower(), upper(),  *)
(* strip(), replace() and the substring test `in` are computed character   *)
(* by character as Python computes them.  Scores and penalties are kept in *)
(* hundredths (1.0 is 100, -0.25 is -25): every penalty of the source is a *)
(* multiple of 0.05 and round(base_score, 2) returns the hundredth nearest *)
(* to the float sum, which is the integer sum here.  Identity similarity   *)
(* is kept in tenths of a percent (round(ratio * 100, 1) = 48.5 is 485).   *)
(***************************************************************************)
EXTENDS Integers, Sequences, FiniteSets, TLC

(***************************************************************************)
(* Python str primitives                                                   *)
(***************************************************************************)
LowerTable ==
  "A" :> "a" @@ "B" :> "b" @@ "C" :> "c" @@ "D" :> "d" @@ "E" :> "e" @@
  "F" :> "f" @@ "G" :> "g" @@ "H" :> "h" @@ "I" :> "i" @@ "J" :> "j" @@
  "K" :> "k" @@ "L" :> "l" @@ "M" :> "m" @@ "N" :> "n" @@ "O" :> "o" @@
  "P" :> "p" @@ "Q" :> "q" @@ "R" :> "r" @@ "S" :> "s" @@ "T" :> "t" @@
  "U" :> "u" @@ "V" :> "v" @@ "W" :> "w" @@ "X" :> "x" @@ "Y" :> "y" @@
  "Z" :> "z"

\* str.lower(): every cased character to lowercase, the others unchanged
lower(s) ==
  [i \in 1..Len(s) |-> IF s[i] \in DOMAIN LowerTable THEN LowerTable[s[i]] ELSE s[i]]

\* str.upper(): the inverse table
upper(s) ==
  [i \in 1..Len(s) |->
     IF \E u \in DOMAIN LowerTable : LowerTable[u] = s[i]
     THEN CHOOSE u \in DOMAIN LowerTable : LowerTable[u] = s[i]
     ELSE s[i]]

Whitespace == {" "}

\* str.strip(): drop leading and trailing whitespace
strip(s) ==
  LET keep == {i \in 1..Len(s) : s[i] \notin Whitespace}
  IN  IF keep = {} THEN <<>>
      ELSE LET lo == CHOOSE i \in keep : \A j \in keep : i <= j
               hi == CHOOSE i \in keep : \A j \in keep : i >= j
           IN  SubSeq(s, lo, hi)

\* s[i:] starts with needle
StartsAt(s, needle, i) ==
  /\ i + Len(needle) - 1 <= Len(s)
  /\ \A k \in 1..Len(needle) : s[i + k - 1] = needle[k]

\* the Python test `needle in s` on strings
In(needle, s) ==
  \E i \in 1..(Len(s) - Len(needle) + 1) : StartsAt(s, needle, i)

RECURSIVE ReplaceFrom(_, _, _)
\* s[i:].replace(old, ""): leftmost non-overlapping occurrences removed
ReplaceFrom(s, old, i) ==
  IF i > Len(s) THEN <<>>
  ELSE IF StartsAt(s, old, i) THEN ReplaceFrom(s, old, i + Len(old))
  ELSE <<s[i]>> \o ReplaceFrom(s, old, i + 1)

\* s.replace(old, "") for a non-empty old
replace(s, old) == ReplaceFrom(s, old, 1)

Digits == {"0", "1", "2", "3", "4", "5", "6", "7", "8", "9"}

\* re.search(r'\d+', s) finds a match
HasDigit(s) == \E i \in 1..Len(s) : s[i] \in Digits

(***************************************************************************)
(* DataFrame cells: a str value or NaN (a missing value of a read CSV).    *)
(* A row maps the column names of its DataFrame to cells.                  *)
(***************************************************************************)
Str(s) == [kind |-> "str", s |-> s]
NaN == [kind |-> "nan", s |-> <<>>]

\* pd.isna / pd.notna on a cell
isna(c) == c.kind = "nan"
notna(c) == ~isna(c)

\* str(value): a str is itself, float('nan') prints as 'nan'
str(c) == IF c.kind = "nan" THEN <<"n", "a", "n">> ELSE c.s

\* Series.get(key, default)
get(row, key, default) == IF key \in DOMAIN row THEN row[key] ELSE default

(***************************************************************************)
(* generate_strong_fid.  The SHA-256 digest prefix is kept as the string   *)
(* it hashes: equal raw strings give equal identifiers.                    *)
(***************************************************************************)
VillageCode == <<"V", "I", "L", "0", "0", "1">>
DeviceId == <<"T", "A", "B", "-", "0", "9">>

generate_strong_fid(name, khasra) ==
  LET raw_string == upper(strip(str(name))) \o <<"|">> \o strip(str(khasra))
                    \o <<"|">> \o VillageCode \o <<"|">> \o DeviceId
  IN  <<"J", "K", "-">> \o raw_string

(***************************************************************************)
(* fuzzy_match_score: difflib.SequenceMatcher(None, n1, n2).ratio()        *)
(***************************************************************************)
RECURSIVE PrefixLen(_, _, _, _)
\* length of the longest common prefix of a[i:] and b[j:]
PrefixLen(a, b, i, j) ==
  IF i > Len(a) \/ j > Len(b) THEN 0
  ELSE IF a[i] # b[j] THEN 0
  ELSE 1 + PrefixLen(a, b, i + 1, j + 1)

\* find_longest_match: the longest block a[i:i+k] = b[j:j+k]; of the longest
\* blocks the one starting earliest in a, and of those earliest in b
find_longest_match(a, b) ==
  LET P == (1..Len(a)) \X (1..Len(b))
      pl == [p \in P |-> PrefixLen(a, b, p[1], p[2])]
      sizes == {pl[p] : p \in P} \cup {0}
      k == CHOOSE n \in sizes : \A m \in sizes : n >= m
      I == {i \in 1..Len(a) : \E j \in 1..Len(b) : pl[<<i, j>>] = k}
      i == CHOOSE x \in I : \A y \in I : x <= y
      J == {j \in 1..Len(b) : pl[<<i, j>>] = k}
      j == CHOOSE x \in J : \A y \in J : x <= y
  IN  IF k = 0 THEN <<1, 1, 0>> ELSE <<i, j, k>>

RECURSIVE MatchCount(_, _)
\* get_matching_blocks: total size of the matching blocks, found by taking
\* the longest match and recursing on the pieces left and right of it
MatchCount(a, b) ==
  IF Len(a) = 0 \/ Len(b) = 0 THEN 0
  ELSE LET m == find_longest_match(a, b)
           i == m[1]
           j == m[2]
           k == m[3]
       IN  IF k = 0 THEN 0
           ELSE k + MatchCount(SubSeq(a, 1, i - 1), SubSeq(b, 1, j - 1))
                  + MatchCount(SubSeq(a, i + k, Len(a)), SubSeq(b, j + k, Len(b)))

\* round(n / d, 0) with ties to the even neighbour, n >= 0, d > 0
RoundHalfEven(n, d) ==
  LET q == n \div d
      r == n % d
  IN  IF 2 * r < d THEN q
      ELSE IF 2 * r > d THEN q + 1
      ELSE IF q % 2 = 0 THEN q ELSE q + 1

\* ratio_tenths with 0 for two empty strings
ratio_tenths_empty_zero(n1, n2) ==
  LET total == Len(n1) + Len(n2)
  IN  IF total = 0 THEN 0
      ELSE RoundHalfEven(2000 * MatchCount(n1, n2), total)

\* round(ratio() * 100, 1) in tenths of a percent; ratio() of two empty
\* strings is 1.0
ratio_tenths(n1, n2) ==
  LET total == Len(n1) + Len(n2)
  IN  IF total = 0 THEN 1000
      ELSE RoundHalfEven(2000 * MatchCount(n1, n2), total)

\* Step 1 of fuzzy_match_score: lower, remove the noise words, strip
normalize_name(name) ==
  strip(replace(replace(replace(lower(name), <<"s", "a", "r", "d", "a", "r">>), <<"s", "h", "r", "i">>), <<"m", "r", ".">>))

\* name1 and name2 are the str values the protocol passes, never NaN
fuzzy_match_score(name1, name2) ==
  ratio_tenths(normalize_name(name1), normalize_name(name2))

(***************************************************************************)
(* The detectors                                                           *)
(***************************************************************************)
CustodianKeywords ==
  <<<<"c", "u", "s", "t", "o", "d", "i", "a", "n">>, <<"e", "v", "a", "c", "u", "e", "e">>, <<"m", "u", "h", "a", "j", "i", "r", "e", "e", "n">>, <<"s", "t", "a", "t", "e", " ", "l", "a", "n", "d">>, <<"a", "u", "q", "a", "f">>>>

\* check_custodian_status that skips the first keyword
check_custodian_status_skip_first(remarks) ==
  LET remarks_lower == lower(remarks)
  IN  IF \E w \in 2..Len(CustodianKeywords) : In(CustodianKeywords[w], remarks_lower)
      THEN <<TRUE, -25>>
      ELSE <<FALSE, 0>>

\* check_custodian_status: <<flag, penalty>>
check_custodian_status(remarks) ==
  LET remarks_lower == lower(remarks)
  IN  IF \E w \in 1..Len(CustodianKeywords) : In(CustodianKeywords[w], remarks_lower)
      THEN <<TRUE, -25>>
      ELSE <<FALSE, 0>>

\* check_land_nuance with the infrastructure words tested before the housing words
check_land_nuance_infra_first(land_type) ==
  LET lt == lower(land_type)
  IN  IF In(<<"g", "a", "i", "r", " ", "m", "u", "m", "k", "i", "n">>, lt) \/ In(<<"g", "a", "i", "r", " ", "m", "u", "m", "a", "k", "i", "n">>, lt)
      THEN IF In(<<"s", "a", "r", "a", "k">>, lt) \/ In(<<"n", "a", "l", "l", "a", "h">>, lt) \/ In(<<"d", "a", "r", "y", "a">>, lt)
           THEN <<"BLOCKED", -40>>
           ELSE IF In(<<"m", "a", "k", "a", "n">>, lt) \/ In(<<"a", "b", "a", "d", "i">>, lt) THEN <<"HOUSING", -10>>
           ELSE <<"GENERAL", -15>>
      ELSE <<"AGRI", 0>>

\* check_land_nuance: <<category, penalty>>
check_land_nuance(land_type) ==
  LET lt == lower(land_type)
  IN  IF In(<<"g", "a", "i", "r", " ", "m", "u", "m", "k", "i", "n">>, lt) \/ In(<<"g", "a", "i", "r", " ", "m", "u", "m", "a", "k", "i", "n">>, lt)
      THEN IF In(<<"m", "a", "k", "a", "n">>, lt) \/ In(<<"a", "b", "a", "d", "i">>, lt) THEN <<"HOUSING", -10>>
           ELSE IF In(<<"s", "a", "r", "a", "k">>, lt) \/ In(<<"n", "a", "l", "l", "a", "h">>, lt) \/ In(<<"d", "a", "r", "y", "a">>, lt)
                THEN <<"BLOCKED", -40>>
           ELSE <<"GENERAL", -15>>
      ELSE <<"AGRI", 0>>

\* derive_mutation_status on the remarks as written, not lowered
derive_mutation_status_case_sensitive(remarks) ==
  LET rem == remarks
  IN  IF In(<<"p", "e", "n", "d", "i", "n", "g">>, rem) THEN <<"P", "e", "n", "d", "i", "n", "g">>
      ELSE IF HasDigit(rem) THEN <<"A", "c", "t", "i", "v", "e">>
      ELSE <<"A", "c", "t", "i", "v", "e">>

\* derive_mutation_status with the digit rule tested first
derive_mutation_status_digits_first(remarks) ==
  LET rem == lower(remarks)
  IN  IF HasDigit(rem) THEN <<"A", "c", "t", "i", "v", "e">>
      ELSE IF In(<<"p", "e", "n", "d", "i", "n", "g">>, rem) THEN <<"P", "e", "n", "d", "i", "n", "g">>
      ELSE <<"A", "c", "t", "i", "v", "e">>

\* derive_mutation_status
derive_mutation_status(remarks) ==
  LET rem == lower(remarks)
  IN  IF In(<<"p", "e", "n", "d", "i", "n", "g">>, rem) THEN <<"P", "e", "n", "d", "i", "n", "g">>
      ELSE IF HasDigit(rem) THEN <<"A", "c", "t", "i", "v", "e">>
      ELSE <<"A", "c", "t", "i", "v", "e">>

\* check_mutation_logic that tests 'pending' alone, not 'no'
check_mutation_logic_pending_only(mutation_status, remarks) ==
  LET mut == lower(mutation_status)
      rem == lower(remarks)
      is_varasat == In(<<"v", "a", "r", "a", "s", "a", "t">>, rem)
  IN  IF mut = <<"p", "e", "n", "d", "i", "n", "g">>
      THEN IF is_varasat THEN <<"GREY_CANDIDATE", 0>> ELSE <<"BROKEN_CHAIN", -20>>
      ELSE <<"ACTIVE", 0>>

\* check_mutation_logic: <<category, penalty>>
check_mutation_logic(mutation_status, remarks) ==
  LET mut == lower(mutation_status)
      rem == lower(remarks)
      is_varasat == In(<<"v", "a", "r", "a", "s", "a", "t">>, rem)
  IN  IF mut = <<"p", "e", "n", "d", "i", "n", "g">> \/ mut = <<"n", "o">>
      THEN IF is_varasat THEN <<"GREY_CANDIDATE", 0>> ELSE <<"BROKEN_CHAIN", -20>>
      ELSE <<"ACTIVE", 0>>

(***************************************************************************)
(* execute_verification_protocol, one row                                  *)
(***************************************************************************)
\* Data normalization: the three str(row.get(..., default)) reads
remarks_of(row) == str(get(row, "Remarks_Kaifiyat", Str(<<>>)))
land_type_of(row) == str(get(row, "Land_Type", Str(<<"A", "g", "r", "i", "c", "u", "l", "t", "u", "r", "a", "l">>)))
owner_name_of(row) == str(get(row, "Owner_Name", Str(<<"U", "n", "k", "n", "o", "w", "n">>)))

\* Mutation status, direct or derived
mutation_status_of(row) ==
  IF "Revenue_Mutation" \in DOMAIN row /\ notna(row["Revenue_Mutation"])
  THEN str(row["Revenue_Mutation"])
  ELSE derive_mutation_status(remarks_of(row))

\* Verified name, defaulting to the owner name
verified_name_of(row) ==
  IF "VDV_Verified_Name" \in DOMAIN row /\ notna(row["VDV_Verified_Name"])
  THEN str(row["VDV_Verified_Name"])
  ELSE owner_name_of(row)

\* 'stay' in remarks.lower() or 'court' in remarks.lower()
legal_dispute(remarks) ==
  In(<<"s", "t", "a", "y">>, lower(remarks)) \/ In(<<"c", "o", "u", "r", "t">>, lower(remarks))

\* entries of logic_trace: the literal text, and for the two f-strings the
\* interpolated category and number
Entry(text, cat, num) == [text |-> text, cat |-> cat, num |-> num]
CustodianEntry == Entry("Custodian Land (-0.25)", "", 0)
DisputeEntry == Entry("Legal Dispute (-0.30)", "", 0)
LandEntry(land_cat, land_penalty) == Entry("Land Type: {land_cat} ({land_penalty})", land_cat, land_penalty)
BrokenChainEntry == Entry("Broken Title Chain (-0.20)", "", 0)
VarasatEntry == Entry("Varasat Exemption (Penalty Waived)", "", 0)
IdentityEntry(id_score) == Entry("Identity Mismatch {id_score}% (-0.30)", "", id_score)
Separator == Entry(", ", "", 0)
CleanRecord == Entry("Clean Record", "", 0)

\* custodian_step that charges the penalty once per keyword found
custodian_step_per_keyword(st, remarks) ==
  LET hits == {w \in 1..Len(CustodianKeywords) : In(CustodianKeywords[w], lower(remarks))}
  IN  IF hits # {}
      THEN [base_score |-> st.base_score - 25 * Cardinality(hits),
            logic_trace |-> Append(st.logic_trace, CustodianEntry)]
      ELSE st

\* 1. statutory exclusions
custodian_step(st, remarks) ==
  LET c == check_custodian_status(remarks)
  IN  IF c[1]
      THEN [base_score |-> st.base_score + c[2],
            logic_trace |-> Append(st.logic_trace, CustodianEntry)]
      ELSE st

\* dispute_step with the entry put at the head of the trace
dispute_step_prepend(st, remarks) ==
  IF legal_dispute(remarks)
  THEN [base_score |-> st.base_score - 30,
        logic_trace |-> <<DisputeEntry>> \o st.logic_trace]
  ELSE st

\* 2. legal disputes
dispute_step(st, remarks) ==
  IF legal_dispute(remarks)
  THEN [base_score |-> st.base_score - 30,
        logic_trace |-> Append(st.logic_trace, DisputeEntry)]
  ELSE st

\* 3. land classification nuance
land_step(st, land_type) ==
  LET l == check_land_nuance(land_type)
  IN  IF l[2] # 0
      THEN [base_score |-> st.base_score + l[2],
            logic_trace |-> Append(st.logic_trace, LandEntry(l[1], l[2]))]
      ELSE st

\* 4. inheritance / mutation chains
mutation_step(st, mutation_status, remarks) ==
  LET m == check_mutation_logic(mutation_status, remarks)
  IN  IF m[2] # 0
      THEN [base_score |-> st.base_score + m[2],
            logic_trace |-> Append(st.logic_trace, BrokenChainEntry)]
      ELSE IF m[1] = "GREY_CANDIDATE"
      THEN [base_score |-> st.base_score,
            logic_trace |-> Append(st.logic_trace, VarasatEntry)]
      ELSE st

\* 5. identity resolution
identity_step(st, owner_name, verified_name) ==
  LET id_score == fuzzy_match_score(owner_name, verified_name)
  IN  IF id_score < 500
      THEN [base_score |-> st.base_score - 30,
            logic_trace |-> Append(st.logic_trace, IdentityEntry(id_score))]
      ELSE st

\* final_score_of without the clamp at 0.0
final_score_of_no_clamp(base_score) == base_score

\* max(round(base_score, 2), 0.0)
final_score_of(base_score) == IF base_score > 0 THEN base_score ELSE 0

\* assign_channel without the land block: the score rules alone
assign_channel_no_block(land_cat, mut_cat, is_custodian, final_score) ==
  IF mut_cat = "GREY_CANDIDATE" /\ final_score >= 80
  THEN <<"GREY", "Deemed Verified (24 Mo. Grace)">>
  ELSE IF is_custodian /\ final_score >= 50
       THEN <<"AMBER", "Issue CRC (Crop Loan Only)">>
  ELSE IF final_score >= 80 THEN <<"GREEN", "Auto-Approve KCC">>
  ELSE IF final_score >= 50 THEN <<"AMBER", "Provisional Review">>
  ELSE <<"RED", "Score Too Low">>

\* assign_channel with the score thresholds tested before the amnesty
assign_channel_score_first(land_cat, mut_cat, is_custodian, final_score) ==
  IF land_cat = "BLOCKED" THEN <<"RED", "Ineligible Land (Road/River)">>
  ELSE IF is_custodian /\ final_score >= 50
       THEN <<"AMBER", "Issue CRC (Crop Loan Only)">>
  ELSE IF final_score >= 80 THEN <<"GREEN", "Auto-Approve KCC">>
  ELSE IF mut_cat = "GREY_CANDIDATE" /\ final_score >= 80
       THEN <<"GREY", "Deemed Verified (24 Mo. Grace)">>
  ELSE IF final_score >= 50 THEN <<"AMBER", "Provisional Review">>
  ELSE <<"RED", "Score Too Low">>

\* the priority chain of the final channel assignment: <<channel, action>>
assign_channel(land_cat, mut_cat, is_custodian, final_score) ==
  IF land_cat = "BLOCKED" THEN <<"RED", "Ineligible Land (Road/River)">>
  ELSE IF mut_cat = "GREY_CANDIDATE" /\ final_score >= 80
       THEN <<"GREY", "Deemed Verified (24 Mo. Grace)">>
  ELSE IF is_custodian /\ final_score >= 50
       THEN <<"AMBER", "Issue CRC (Crop Loan Only)">>
  ELSE IF final_score >= 80 THEN <<"GREEN", "Auto-Approve KCC">>
  ELSE IF final_score >= 50 THEN <<"AMBER", "Provisional Review">>
  ELSE <<"RED", "Score Too Low">>

RECURSIVE join(_)
\* ", ".join(logic_trace)
join(trace) ==
  IF Len(trace) = 0 THEN <<>>
  ELSE IF Len(trace) = 1 THEN trace
  ELSE <<trace[1], Separator>> \o join(Tail(trace))

\* ", ".join(logic_trace) if logic_trace else "Clean Record"
audit_trace_of(logic_trace) ==
  IF logic_trace # <<>> THEN join(logic_trace) ELSE <<CleanRecord>>

\* the five audits in their order, from the locals set at the top of the
\* loop body
run_audits(row, st0) ==
  LET remarks == remarks_of(row)
      s1 == custodian_step(st0, remarks)
      s2 == dispute_step(s1, remarks)
      s3 == land_step(s2, land_type_of(row))
      s4 == mutation_step(s3, mutation_status_of(row), remarks)
  IN  identity_step(s4, owner_name_of(row), verified_name_of(row))

\* the four columns the loop body writes to its copy of the row
annotate(row, st) ==
  LET remarks == remarks_of(row)
      land_cat == check_land_nuance(land_type_of(row))[1]
      mut_cat == check_mutation_logic(mutation_status_of(row), remarks)[1]
      is_custodian == check_custodian_status(remarks)[1]
      final_score == final_score_of(st.base_score)
      ca == assign_channel(land_cat, mut_cat, is_custodian, final_score)
  IN  ("Trust_Score" :> final_score) @@ ("Governance_Channel" :> ca[1]) @@
      ("Action_Taken" :> ca[2]) @@
      ("Audit_Trace" :> audit_trace_of(st.logic_trace)) @@ row

\* df['AgriStack_FID'] = df.apply(...): the column is set on the frame passed in
with_fid(frame) ==
  [i \in 1..Len(frame) |->
     ("AgriStack_FID" :>
        generate_strong_fid(get(frame[i], "Owner_Name", Str(<<"U", "n", "k", "n", "o", "w", "n">>)),
                            get(frame[i], "Khasra_No", Str(<<"0", "0", "0">>)))) @@ frame[i]]

(***************************************************************************)
(* Input frames                                                            *)
(***************************************************************************)
MaxBatch == 2

\* a column the frame does not have
Missing == [kind |-> "missing", s |-> <<>>]

OwnerSamples == {Str(<<"R", "a", "m", " ", "K", "u", "m", "a", "r">>), Str(<<"S", "a", "r", "d", "a", "r", " ", "K", "a", "r", "n", "a", "i", "l", " ", "S", "i", "n", "g", "h">>), Missing}
VerifiedSamples ==
  {Str(<<"R", "a", "m", " ", "K", "u", "m", "a", "r">>), Str(<<"R", "a", "m", "a", " ", "K", "u", "m", "a", "r">>), Str(<<"K", "a", "r", "n", "a", "i", "l", " ", "S", "i", "n", "g", "h">>), NaN, Missing}
LandSamples ==
  {Str(<<"A", "g", "r", "i", "c", "u", "l", "t", "u", "r", "a", "l">>), Str(<<"G", "a", "i", "r", " ", "M", "u", "m", "k", "i", "n", " ", "S", "a", "r", "a", "k">>), Str(<<"G", "a", "i", "r", " ", "M", "u", "m", "k", "i", "n", " ", "M", "a", "k", "a", "n">>),
   Str(<<"g", "a", "i", "r", " ", "m", "u", "m", "k", "i", "n">>), Str(<<"G", "A", "I", "R", " ", "M", "U", "M", "A", "K", "I", "N", " ", "A", "b", "a", "d", "i", " ", "D", "a", "r", "y", "a">>), Str(<<"S", "a", "r", "a", "k", " ", "A", "b", "a", "d", "i">>),
   NaN, Missing}
RemarksSamples ==
  {Str(<<"C", "l", "e", "a", "n">>), Str(<<"V", "a", "r", "a", "s", "a", "t", " ", "P", "e", "n", "d", "i", "n", "g">>), Str(<<"V", "a", "r", "a", "s", "a", "t", " ", "3", "0", "5", " ", "p", "e", "n", "d", "i", "n", "g">>),
   Str(<<"S", "a", "l", "e", " ", "P", "e", "n", "d", "i", "n", "g">>), Str(<<"C", "u", "s", "t", "o", "d", "i", "a", "n", " ", "L", "a", "n", "d">>), Str(<<"C", "o", "u", "r", "t", " ", "S", "t", "a", "y">>),
   Str(<<"E", "v", "a", "c", "u", "e", "e", " ", "v", "a", "r", "a", "s", "a", "t", " ", "P", "E", "N", "D", "I", "N", "G">>), Str(<<"a", "u", "q", "a", "f", " ", "c", "o", "u", "r", "t", " ", "s", "a", "l", "e", " ", "p", "e", "n", "d", "i", "n", "g">>),
   Str(<<"M", "u", "t", "a", "t", "i", "o", "n", " ", "5", "0", "5">>), Str(<<"V", "a", "r", "a", "s", "a", "t", " ", "s", "t", "a", "y">>), Str(<<"C", "u", "s", "t", "o", "d", "i", "a", "n", " ", "a", "u", "q", "a", "f">>), Missing}
MutationSamples == {Str(<<"P", "e", "n", "d", "i", "n", "g">>), Str(<<"N", "o">>), Str(<<"A", "c", "t", "i", "v", "e">>), NaN, Missing}

\* the fields the identifier is generated from
IdOwnerSamples == {Str(<<" ", "r", "a", "m", " ", "K", "u", "m", "a", "r", " ">>), Str(<<>>), NaN, Missing}
IdKhasraSamples == {Str(<<" ", "4", "0", "1", " ">>), Str(<<>>), NaN, Missing}

\* a row over the columns that are not Missing
make_row(khevat, owner, khasra, land, remarks, mutation, verified) ==
  LET all == ("Khevat_No" :> khevat) @@ ("Owner_Name" :> owner) @@
             ("Khasra_No" :> khasra) @@ ("Land_Type" :> land) @@
             ("Remarks_Kaifiyat" :> remarks) @@ ("Revenue_Mutation" :> mutation) @@
             ("VDV_Verified_Name" :> verified)
      cols == {c \in DOMAIN all : all[c] # Missing}
  IN  [c \in cols |-> all[c]]

\* the rows that vary the fields the audits read
ScoringRows ==
  {make_row(Str(<<"1", "0", "1">>), o, Str(<<"4", "0", "1">>), l, r, m, v) :
     o \in OwnerSamples, l \in LandSamples, r \in RemarksSamples,
     m \in MutationSamples, v \in VerifiedSamples}

\* the rows that vary the fields the identifier reads
IdentityRows ==
  {make_row(Str(<<"1", "0", "1">>), o, k, Str(<<"A", "g", "r", "i", "c", "u", "l", "t", "u", "r", "a", "l">>), Str(<<"C", "l", "e", "a", "n">>), Missing, Missing) :
     o \in IdOwnerSamples, k \in IdKhasraSamples}

SingleRows == ScoringRows \cup IdentityRows

\* rows of one frame (the same columns), for the frames of several rows
Catalogue ==
  {make_row(Str(<<"1", "0", "1">>), Str(<<"R", "a", "m", " ", "K", "u", "m", "a", "r">>), Str(<<"4", "0", "1">>), Str(<<"A", "g", "r", "i", "c", "u", "l", "t", "u", "r", "a", "l">>),
            Str(<<"C", "l", "e", "a", "n">>), NaN, Str(<<"R", "a", "m", " ", "K", "u", "m", "a", "r">>)),
   make_row(Str(<<"1", "0", "2">>), Str(<<"R", "a", "m", " ", "K", "u", "m", "a", "r">>), Str(<<"4", "0", "1">>), Str(<<"A", "g", "r", "i", "c", "u", "l", "t", "u", "r", "a", "l">>),
            Str(<<"C", "l", "e", "a", "n">>), NaN, Str(<<"R", "a", "m", " ", "K", "u", "m", "a", "r">>)),
   make_row(Str(<<"1", "0", "3">>), Str(<<"S", "a", "r", "d", "a", "r", " ", "K", "a", "r", "n", "a", "i", "l", " ", "S", "i", "n", "g", "h">>), Str(<<"9", "0", "5">>), Str(<<"G", "a", "i", "r", " ", "M", "u", "m", "k", "i", "n", " ", "M", "a", "k", "a", "n">>),
            Str(<<"V", "a", "r", "a", "s", "a", "t", " ", "P", "e", "n", "d", "i", "n", "g">>), NaN, Str(<<"K", "a", "r", "n", "a", "i", "l", " ", "S", "i", "n", "g", "h">>)),
   make_row(Str(<<"1", "0", "4">>), Str(<<"R", "a", "m", " ", "K", "u", "m", "a", "r">>), Str(<<"5", "0", "0">>), Str(<<"G", "a", "i", "r", " ", "M", "u", "m", "k", "i", "n", " ", "S", "a", "r", "a", "k">>),
            Str(<<"C", "u", "s", "t", "o", "d", "i", "a", "n", " ", "L", "a", "n", "d">>), Str(<<"P", "e", "n", "d", "i", "n", "g">>), Str(<<"K", "a", "r", "n", "a", "i", "l", " ", "S", "i", "n", "g", "h">>))}

RECURSIVE SeqsOfLen(_, _)
SeqsOfLen(S, n) ==
  IF n = 0 THEN {<<>>}
  ELSE {Append(s, x) : s \in SeqsOfLen(S, n - 1), x \in S}

CatalogueFrames == UNION {SeqsOfLen(Catalogue, n) : n \in 0..MaxBatch}
Frames == CatalogueFrames \cup {<<r>> : r \in SingleRows}

(***************************************************************************)
(* The call as a state machine                                             *)
(***************************************************************************)
VARIABLES
  pc,           \* "idle", "loaded" (caller holds df), "loop", "returned"
  df,           \* the DataFrame the caller passes, a sequence of rows
  before,       \* df as the caller held it when the call began
  results,      \* the list results of the call
  idx,          \* rows the loop has iterated
  base_score,   \* local of the loop body, as the last iteration left it
  logic_trace,  \* local of the loop body, as the last iteration left it
  df_final      \* the DataFrame returned to the caller

vars == <<pc, df, before, results, idx, base_score, logic_trace, df_final>>

Init ==
  /\ pc = "idle"
  /\ df = <<>>
  /\ before = <<>>
  /\ results = <<>>
  /\ idx = 0
  /\ base_score = 100
  /\ logic_trace = <<>>
  /\ df_final = <<>>

\* the caller reads a frame at the start of a run
Load(frame) ==
  /\ pc = "idle"
  /\ pc' = "loaded"
  /\ df' = frame
  /\ before' = frame
  /\ results' = <<>>
  /\ idx' = 0
  /\ base_score' = 100
  /\ logic_trace' = <<>>
  /\ df_final' = <<>>

\* the caller reads another frame and keeps the result of the earlier call
Reload(frame) ==
  /\ pc = "returned"
  /\ pc' = "loaded"
  /\ df' = frame
  /\ before' = frame
  /\ results' = <<>>
  /\ idx' = 0
  /\ base_score' = 100
  /\ logic_trace' = <<>>
  /\ UNCHANGED df_final

\* entry of execute_verification_protocol: the identifier column, results = []
Call ==
  /\ pc = "loaded"
  /\ pc' = "loop"
  /\ df' = with_fid(df)
  /\ results' = <<>>
  /\ idx' = 0
  /\ UNCHANGED <<before, base_score, logic_trace, df_final>>

\* Iterate with the row put at the head of results
Iterate_prepend ==
  /\ pc = "loop"
  /\ idx < Len(df)
  /\ LET row == df[idx + 1]
         st == run_audits(row, [base_score |-> 100, logic_trace |-> <<>>])
     IN  /\ base_score' = st.base_score
         /\ logic_trace' = st.logic_trace
         /\ results' = <<annotate(row, st)>> \o results
  /\ idx' = idx + 1
  /\ UNCHANGED <<pc, df, before, df_final>>

\* Iterate with logic_trace created once, before the loop
Iterate_shared_trace ==
  /\ pc = "loop"
  /\ idx < Len(df)
  /\ LET row == df[idx + 1]
         st == run_audits(row, [base_score |-> 100, logic_trace |-> logic_trace])
     IN  /\ base_score' = st.base_score
         /\ logic_trace' = st.logic_trace
         /\ results' = Append(results, annotate(row, st))
  /\ idx' = idx + 1
  /\ UNCHANGED <<pc, df, before, df_final>>

\* one iteration of `for index, row in df.iterrows()`
Iterate ==
  /\ pc = "loop"
  /\ idx < Len(df)
  /\ LET row == df[idx + 1]
         st == run_audits(row, [base_score |-> 100, logic_trace |-> <<>>])
     IN  /\ base_score' = st.base_score
         /\ logic_trace' = st.logic_trace
         /\ results' = Append(results, annotate(row, st))
  /\ idx' = idx + 1
  /\ UNCHANGED <<pc, df, before, df_final>>

\* return pd.DataFrame(results)
Return ==
  /\ pc = "loop"
  /\ idx = Len(df)
  /\ pc' = "returned"
  /\ df_final' = results
  /\ UNCHANGED <<df, before, results, idx, base_score, logic_trace>>

\* the run of the caller ends: nothing of it is kept
Rerun ==
  /\ pc = "returned"
  /\ pc' = "idle"
  /\ df' = <<>>
  /\ before' = <<>>
  /\ results' = <<>>
  /\ idx' = 0
  /\ base_score' = 100
  /\ logic_trace' = <<>>
  /\ df_final' = <<>>

Next ==
  \/ \E frame \in Frames : Load(frame)
  \/ Call
  \/ Iterate
  \/ Return
  \/ Rerun

Spec == Init /\ [][Next]_vars

\* a caller that keeps the earlier result while it scores the next frame
NextRepeat ==
  \/ \E frame \in CatalogueFrames : Load(frame)
  \/ \E frame \in CatalogueFrames : Reload(frame)
  \/ Call
  \/ Iterate
  \/ Return
  \/ Rerun

SpecRepeat == Init /\ [][NextRepeat]_vars

TypeOK ==
  /\ pc \in {"idle", "loaded", "loop", "returned"}
  /\ idx \in 0..Len(df)
  /\ Len(results) = idx

(***************************************************************************)
(* Properties                                                              *)
(***************************************************************************)
\* the rows scored so far in the running call
Scored == {results[i] : i \in 1..Len(results)}

\* what a row's input says, read from the text alone
HasCustodianKeyword(row) ==
  \E kw \in {<<"c", "u", "s", "t", "o", "d", "i", "a", "n">>, <<"e", "v", "a", "c", "u", "e", "e">>, <<"m", "u", "h", "a", "j", "i", "r", "e", "e", "n">>, <<"s", "t", "a", "t", "e", " ", "l", "a", "n", "d">>, <<"a", "u", "q", "a", "f">>} :
     In(kw, lower(remarks_of(row)))
HasDisputeKeyword(row) ==
  \E kw \in {<<"s", "t", "a", "y">>, <<"c", "o", "u", "r", "t">>} : In(kw, lower(remarks_of(row)))
HasUncultivableMarker(row) ==
  \E kw \in {<<"g", "a", "i", "r", " ", "m", "u", "m", "k", "i", "n">>, <<"g", "a", "i", "r", " ", "m", "u", "m", "a", "k", "i", "n">>} : In(kw, lower(land_type_of(row)))
HasHousingWord(row) ==
  \E kw \in {<<"m", "a", "k", "a", "n">>, <<"a", "b", "a", "d", "i">>} : In(kw, lower(land_type_of(row)))
HasInfraWord(row) ==
  \E kw \in {<<"s", "a", "r", "a", "k">>, <<"n", "a", "l", "l", "a", "h">>, <<"d", "a", "r", "y", "a">>} : In(kw, lower(land_type_of(row)))
LandIsBlocked(row) ==
  HasUncultivableMarker(row) /\ HasInfraWord(row) /\ ~HasHousingWord(row)
HasVarasat(row) == In(<<"v", "a", "r", "a", "s", "a", "t">>, lower(remarks_of(row)))
HasExplicitStatus(row) ==
  "Revenue_Mutation" \in DOMAIN row /\ row["Revenue_Mutation"].kind = "str"
\* the mutation status is pending: the explicit one, or the remarks say so
StatusIsPending(row) ==
  IF HasExplicitStatus(row)
  THEN lower(row["Revenue_Mutation"].s) = <<"p", "e", "n", "d", "i", "n", "g">>
  ELSE In(<<"p", "e", "n", "d", "i", "n", "g">>, lower(remarks_of(row)))
IdentityMismatch(row) ==
  fuzzy_match_score(owner_name_of(row), verified_name_of(row)) < 500

\* C1: every Trust_Score written by the protocol lies in [0.0, 1.0]
\* (0..100 hundredths), whatever detectors fired
C1_ScoreBounded ==
  \A r \in Scored : r["Trust_Score"] >= 0 /\ r["Trust_Score"] <= 100

\* a row on which all five penalties fired, its sum below zero, clamped to 0
C1_Witness ==
  /\ pc = "loop" /\ idx > 0
  /\ base_score < 0
  /\ results[idx]["Trust_Score"] = 0

\* C2: a row whose land type has an uncultivable marker and an
\* infrastructure word but no housing word is RED with action
\* 'Ineligible Land (Road/River)', whatever its other fields and score
C2_BlockedIsRed ==
  \A r \in Scored :
     LandIsBlocked(r) =>
       /\ r["Governance_Channel"] = "RED"
       /\ r["Action_Taken"] = "Ineligible Land (Road/River)"

\* a blocked row whose score alone would have been routed to AMBER
C2_Witness ==
  \E r \in Scored :
     /\ LandIsBlocked(r)
     /\ r["Trust_Score"] >= 50
     /\ r["Governance_Channel"] = "RED"

\* C3: a row whose remarks contain a custodian keyword is never GREEN
C3_CustodianNeverGreen ==
  \A r \in Scored : HasCustodianKeyword(r) => r["Governance_Channel"] # "GREEN"

\* a custodian row with no other penalty, routed to AMBER at 0.75
C3_Witness ==
  \E r \in Scored :
     /\ HasCustodianKeyword(r)
     /\ r["Trust_Score"] = 75
     /\ r["Governance_Channel"] = "AMBER"
     /\ r["Action_Taken"] = "Issue CRC (Crop Loan Only)"

\* the branch of the ordered table a row falls in, 1 (a) .. 6 (f)
Branch(land_cat, mut_cat, is_custodian, score) ==
  CASE land_cat = "BLOCKED" -> 1
    [] land_cat # "BLOCKED" /\ mut_cat = "GREY_CANDIDATE" /\ score >= 80 -> 2
    [] land_cat # "BLOCKED" /\ ~(mut_cat = "GREY_CANDIDATE" /\ score >= 80)
       /\ is_custodian /\ score >= 50 -> 3
    [] land_cat # "BLOCKED" /\ ~(mut_cat = "GREY_CANDIDATE" /\ score >= 80)
       /\ ~(is_custodian /\ score >= 50) /\ score >= 80 -> 4
    [] land_cat # "BLOCKED" /\ ~(mut_cat = "GREY_CANDIDATE" /\ score >= 80)
       /\ ~(is_custodian /\ score >= 50) /\ score < 80 /\ score >= 50 -> 5
    [] OTHER -> 6
BranchChannel == <<"RED", "GREY", "AMBER", "GREEN", "AMBER", "RED">>
BranchAction ==
  <<"Ineligible Land (Road/River)", "Deemed Verified (24 Mo. Grace)",
    "Issue CRC (Crop Loan Only)", "Auto-Approve KCC", "Provisional Review",
    "Score Too Low">>
RowBranch(r) ==
  Branch(check_land_nuance(land_type_of(r))[1],
         check_mutation_logic(mutation_status_of(r), remarks_of(r))[1],
         check_custodian_status(remarks_of(r))[1],
         r["Trust_Score"])

C5_GreyAmnesty ==
  \A r \in Scored :
     ( /\ StatusIsPending(r)
       /\ HasVarasat(r)
       /\ ~HasCustodianKeyword(r)
       /\ ~HasDisputeKeyword(r)
       /\ ~HasUncultivableMarker(r)
       /\ ~IdentityMismatch(r) )
     => /\ r["Trust_Score"] = 100
        /\ r["Governance_Channel"] = "GREY"

\* the status derived from remarks that also carry a mutation number
C5_Witness ==
  \E r \in Scored :
     /\ ~HasExplicitStatus(r)
     /\ In(<<"p", "e", "n", "d", "i", "n", "g">>, lower(remarks_of(r))) /\ HasDigit(remarks_of(r))
     /\ HasVarasat(r)
     /\ r["Trust_Score"] = 100
     /\ r["Governance_Channel"] = "GREY"

\* no detector fires on the row
NoDetectorFires(row) ==
  /\ ~HasCustodianKeyword(row)
  /\ ~HasDisputeKeyword(row)
  /\ check_land_nuance(land_type_of(row))[1] = "AGRI"
  /\ check_mutation_logic(mutation_status_of(row), remarks_of(row))[1] = "ACTIVE"
  /\ \/ "VDV_Verified_Name" \notin DOMAIN row
     \/ row["VDV_Verified_Name"].kind = "nan"
     \/ str(row["VDV_Verified_Name"]) = owner_name_of(row)

\* C6: a row on which no detector fires gets 1.0, GREEN and the trace
\* 'Clean Record'; the sentinel is the trace exactly when the loop body
\* appended no entry
C6_CleanRecord ==
  /\ \A r \in Scored :
        NoDetectorFires(r) =>
          /\ r["Trust_Score"] = 100
          /\ r["Governance_Channel"] = "GREEN"
          /\ r["Audit_Trace"] = <<CleanRecord>>
  /\ (pc = "loop" /\ idx > 0) =>
        (results[idx]["Audit_Trace"] = <<CleanRecord>> <=> logic_trace = <<>>)

\* a clean row whose owner name is empty and whose verified name is absent
C6_Witness ==
  \E r \in Scored :
     /\ NoDetectorFires(r)
     /\ Len(owner_name_of(r)) = 0
     /\ r["Audit_Trace"] = <<CleanRecord>>
     /\ r["Governance_Channel"] = "GREEN"

\* the rule an entry of the trace belongs to, in evaluation order
RuleOf(entry) ==
  CASE entry.text = "Custodian Land (-0.25)" -> 1
    [] entry.text = "Legal Dispute (-0.30)" -> 2
    [] entry.text = "Land Type: {land_cat} ({land_penalty})" -> 3
    [] entry.text = "Broken Title Chain (-0.20)" -> 4
    [] entry.text = "Varasat Exemption (Penalty Waived)" -> 4
    [] entry.text = "Identity Mismatch {id_score}% (-0.30)" -> 5
    [] OTHER -> 0
\* the entries of a rendered trace: the pieces between the separators
EntriesOf(audit_trace) ==
  IF audit_trace = <<CleanRecord>> THEN <<>>
  ELSE [n \in 1..((Len(audit_trace) + 1) \div 2) |-> audit_trace[2 * n - 1]]
RuleFired(row, rule) ==
  CASE rule = 1 -> HasCustodianKeyword(row)
    [] rule = 2 -> HasDisputeKeyword(row)
    [] rule = 3 -> HasUncultivableMarker(row)
    [] rule = 4 -> check_mutation_logic(mutation_status_of(row), remarks_of(row))[1] # "ACTIVE"
    [] rule = 5 -> IdentityMismatch(row)

\* C7: the entries of every Audit_Trace are in the order custodian, legal
\* dispute, land, mutation, identity, one for each rule that fired and none
\* for a rule that did not
C7_TraceOrder ==
  \A r \in Scored :
     LET es == EntriesOf(r["Audit_Trace"])
     IN  /\ \A n \in 1..Len(es) : RuleOf(es[n]) \in 1..5
         /\ \A n \in 1..(Len(es) - 1) : RuleOf(es[n]) < RuleOf(es[n + 1])
         /\ \A rule \in 1..5 :
               RuleFired(r, rule) <=> \E n \in 1..Len(es) : RuleOf(es[n]) = rule
         /\ \A n \in 1..(Len(r["Audit_Trace"]) \div 2) :
               r["Audit_Trace"][2 * n] = Separator

\* a row on which all five rules fired
C7_Witness ==
  \E r \in Scored :
     /\ Len(EntriesOf(r["Audit_Trace"])) = 5
     /\ \A rule \in 1..5 : RuleFired(r, rule)

\* the columns the protocol writes
WrittenColumns ==
  {"AgriStack_FID", "Trust_Score", "Governance_Channel", "Action_Taken", "Audit_Trace"}
\* the input part of an output row
InputOf(r) == [c \in (DOMAIN r) \ WrittenColumns |-> r[c]]

\* C8: one result per input row, in input order: while the loop runs the
\* results are those of the rows iterated, and the frame returned has the
\* length of the input and in place i the i-th input row with its identifier
C8_OrderPreserved ==
  /\ pc \in {"loop", "returned"} =>
        /\ Len(results) = idx
        /\ \A i \in 1..Len(results) :
              /\ InputOf(results[i]) = before[i]
              /\ results[i]["AgriStack_FID"] =
                   generate_strong_fid(get(before[i], "Owner_Name", Str(<<"U", "n", "k", "n", "o", "w", "n">>)),
                                       get(before[i], "Khasra_No", Str(<<"0", "0", "0">>)))
  /\ pc = "returned" =>
        /\ Len(df_final) = Len(before)
        /\ df_final = results

\* a frame of two different rows returned
C8_Witness ==
  /\ pc = "returned"
  /\ Len(before) = 2
  /\ before[1] # before[2]
  /\ Len(df_final) = 2
  /\ df_final[1]["Governance_Channel"] # df_final[2]["Governance_Channel"]

\* C9: two rows with the same input fields have the same identifier, score,
\* channel, action and trace, whatever their place, the other rows of their
\* frame, and whether they were scored in this call or in the earlier one
C9_Independent ==
  \A x \in Scored \cup {df_final[i] : i \in 1..Len(df_final)} :
     \A y \in Scored :
        InputOf(x) = InputOf(y) => x = y

\* a row with a non-empty trace scored first in the earlier call and second,
\* after another row, in this call
C9_Witness ==
  /\ pc = "loop" /\ idx = 2
  /\ Len(df_final) = 2
  /\ InputOf(results[2]) = InputOf(df_final[1])
  /\ InputOf(results[1]) # InputOf(df_final[1])
  /\ InputOf(results[1]) # InputOf(df_final[2])
  /\ results[1]["Audit_Trace"] # <<CleanRecord>>
  /\ results[2]["Audit_Trace"] # <<CleanRecord>>

\* C10: after the call returns, the caller's input frame holds the fields
\* and values it held before the call
C10_InputUnchanged ==
  pc = "returned" => df = before

\* a field with no usable value: column missing, null, or empty after strip
Unusable(row, col) ==
  \/ col \notin DOMAIN row
  \/ row[col].kind = "nan"
  \/ strip(row[col].s) = <<>>
\* the identifier with the documented sentinel in place of an unusable field
SentinelFid(row) ==
  generate_strong_fid(
    IF Unusable(row, "Owner_Name") THEN Str(<<"U", "n", "k", "n", "o", "w", "n">>) ELSE row["Owner_Name"],
    IF Unusable(row, "Khasra_No") THEN Str(<<"0", "0", "0">>) ELSE row["Khasra_No"])
\* the result says something about the row: its trace is not the clean sentinel
Flagged(r) == r["Audit_Trace"] # <<CleanRecord>>

\* C11: a row with no usable owner name or plot number gets the identifier
\* of the sentinel ('Unknown' / '000') or is flagged in its result; no
\* identifier is made from an empty or null value without a flag
C11_NoSilentIdentifier ==
  \A r \in Scored :
     (Unusable(r, "Owner_Name") \/ Unusable(r, "Khasra_No")) =>
        (r["AgriStack_FID"] = SentinelFid(r) \/ Flagged(r))

\* the penalty sum of a row, from its text: each rule once
LandPenalty(row) ==
  IF ~HasUncultivableMarker(row) THEN 0
  ELSE IF HasHousingWord(row) THEN 10
  ELSE IF HasInfraWord(row) THEN 40
  ELSE 15
\* the status used for scoring: the explicit one, else read off the remarks
EffectiveStatus(row) ==
  IF HasExplicitStatus(row) THEN row["Revenue_Mutation"].s
  ELSE IF In(<<"p", "e", "n", "d", "i", "n", "g">>, lower(remarks_of(row))) THEN <<"P", "e", "n", "d", "i", "n", "g">>
  ELSE <<"A", "c", "t", "i", "v", "e">>
StatusPendingOrNo(row) ==
  lower(EffectiveStatus(row)) \in {<<"p", "e", "n", "d", "i", "n", "g">>, <<"n", "o">>}
PenaltySum(row) ==
  (IF HasCustodianKeyword(row) THEN 25 ELSE 0)
  + (IF HasDisputeKeyword(row) THEN 30 ELSE 0)
  + LandPenalty(row)
  + (IF StatusPendingOrNo(row) /\ ~HasVarasat(row) THEN 20 ELSE 0)
  + (IF IdentityMismatch(row) THEN 30 ELSE 0)
\* how many keywords of a set the text contains
Hits(kws, text) == Cardinality({kw \in kws : In(kw, lower(text))})

\* C12: the final score is max(0, 1.00 - P), P the sum of 0.25 custodian,
\* 0.30 dispute, the land penalty, 0.20 broken chain and 0.30 identity
\* mismatch, each at most once; the channel thresholds see that score
C12_ScoreFormula ==
  \A r \in Scored :
     /\ r["Trust_Score"] = (IF 100 - PenaltySum(r) > 0 THEN 100 - PenaltySum(r) ELSE 0)
     /\ r["Governance_Channel"] = "GREEN" => r["Trust_Score"] >= 80
     /\ r["Governance_Channel"] = "GREY" => r["Trust_Score"] >= 80
     /\ r["Governance_Channel"] = "AMBER" => r["Trust_Score"] >= 50

\* a row with two custodian keywords and nothing else, charged 0.25 once
C12_Witness ==
  \E r \in Scored :
     /\ Hits({<<"c", "u", "s", "t", "o", "d", "i", "a", "n">>, <<"e", "v", "a", "c", "u", "e", "e">>, <<"m", "u", "h", "a", "j", "i", "r", "e", "e", "n">>, <<"s", "t", "a", "t", "e", " ", "l", "a", "n", "d">>, <<"a", "u", "q", "a", "f">>},
             remarks_of(r)) = 2
     /\ PenaltySum(r) = 25
     /\ r["Trust_Score"] = 75

\* the land entry of a rendered trace, <<>> when there is none
LandEntriesOf(r) ==
  SelectSeq(EntriesOf(r["Audit_Trace"]), LAMBDA e : RuleOf(e) = 3)
\* the category the priority rules give, from the text
ExpectedLand(row) ==
  IF ~HasUncultivableMarker(row) THEN <<"AGRI", 0>>
  ELSE IF HasHousingWord(row) THEN <<"HOUSING", -10>>
  ELSE IF HasInfraWord(row) THEN <<"BLOCKED", -40>>
  ELSE <<"GENERAL", -15>>

\* C13: check_land_nuance gives every land type the category of the first
\* matching rule: marker + housing word HOUSING -0.10 (also with an
\* infrastructure word), marker + infrastructure word BLOCKED -0.40, marker
\* alone GENERAL -0.15, no marker AGRI 0.0; case-insensitive, one of four
C13_LandPriority ==
  \A r \in Scored :
     LET c == check_land_nuance(land_type_of(r))
     IN  /\ c = ExpectedLand(r)
         /\ c \in {<<"AGRI", 0>>, <<"HOUSING", -10>>, <<"BLOCKED", -40>>, <<"GENERAL", -15>>}
         /\ LandEntriesOf(r) =
              (IF c[1] = "AGRI" THEN <<>> ELSE <<LandEntry(c[1], c[2])>>)

\* an upper-case marker with a housing and an infrastructure word: HOUSING
C13_Witness ==
  \E r \in Scored :
     /\ land_type_of(r) # lower(land_type_of(r))
     /\ HasUncultivableMarker(r) /\ HasHousingWord(r) /\ HasInfraWord(r)
     /\ LandEntriesOf(r) = <<LandEntry("HOUSING", -10)>>

\* C14: with no explicit status (column missing or null) the status is
\* 'Pending' when the remarks contain 'pending' in any case, digits or not,
\* else 'Active'; an explicit status is used as given
C14_DerivedStatus ==
  \A r \in Scored :
     /\ mutation_status_of(r) = EffectiveStatus(r)
     /\ ~HasExplicitStatus(r) =>
           /\ derive_mutation_status(remarks_of(r)) \in {<<"P", "e", "n", "d", "i", "n", "g">>, <<"A", "c", "t", "i", "v", "e">>}
           /\ derive_mutation_status(remarks_of(r)) = <<"P", "e", "n", "d", "i", "n", "g">>
                <=> In(<<"p", "e", "n", "d", "i", "n", "g">>, lower(remarks_of(r)))
     /\ (~HasExplicitStatus(r) /\ In(<<"p", "e", "n", "d", "i", "n", "g">>, lower(remarks_of(r)))
         /\ HasVarasat(r) /\ ~HasUncultivableMarker(r))
        => VarasatEntry \in {r["Audit_Trace"][n] : n \in 1..Len(r["Audit_Trace"])}

\* a null status and remarks with 'PENDING' in capitals: derived Pending
C14_Witness ==
  \E r \in Scored :
     /\ "Revenue_Mutation" \in DOMAIN r /\ r["Revenue_Mutation"].kind = "nan"
     /\ ~In(<<"p", "e", "n", "d", "i", "n", "g">>, remarks_of(r)) /\ In(<<"p", "e", "n", "d", "i", "n", "g">>, lower(remarks_of(r)))
     /\ mutation_status_of(r) = <<"P", "e", "n", "d", "i", "n", "g">>
     /\ VarasatEntry \in {r["Audit_Trace"][n] : n \in 1..Len(r["Audit_Trace"])}

\* the category and penalty the mutation rules give, from status and remarks
ExpectedMutation(row) ==
  IF StatusPendingOrNo(row) /\ HasVarasat(row) THEN <<"GREY_CANDIDATE", 0>>
  ELSE IF StatusPendingOrNo(row) THEN <<"BROKEN_CHAIN", -20>>
  ELSE <<"ACTIVE", 0>>
MutationEntriesOf(r) ==
  SelectSeq(EntriesOf(r["Audit_Trace"]), LAMBDA e : RuleOf(e) = 4)

\* C15: check_mutation_logic gives GREY_CANDIDATE 0.0 for a pending/absent
\* status with 'varasat' in the remarks, BROKEN_CHAIN -0.20 for one
\* without, ACTIVE 0.0 otherwise; a GREY_CANDIDATE row has the entry
\* 'Varasat Exemption (Penalty Waived)' and never 'Broken Title Chain'
C15_MutationLogic ==
  \A r \in Scored :
     LET m == check_mutation_logic(mutation_status_of(r), remarks_of(r))
     IN  /\ m = ExpectedMutation(r)
         /\ MutationEntriesOf(r) =
              (CASE m[1] = "GREY_CANDIDATE" -> <<VarasatEntry>>
                 [] m[1] = "BROKEN_CHAIN" -> <<BrokenChainEntry>>
                 [] OTHER -> <<>>)

\* an explicit status 'No' with 'varasat' in the remarks: the exemption
C15_Witness ==
  \E r \in Scored :
     /\ HasExplicitStatus(r)
     /\ lower(r["Revenue_Mutation"].s) = <<"n", "o">>
     /\ HasVarasat(r)
     /\ MutationEntriesOf(r) = <<VarasatEntry>>

====
